---- MODULE Spec2Model ----
(***************************************************************************)
(* Model of the experiment harness of perf_research: the CPU binding and   *)
(* timing helpers of common/cpu_bindind.h and the ready/start rendezvous   *)
(* that every multi-thread experiment (latency_hiding, shared_cache,       *)
(* false_sharing, dcache_contention, icache_contention, combined_test)     *)
(* builds from them.  One process runs one program in one mode; main calls *)
(* the run functions of that mode in order; each run function is the       *)
(* Driver of its worker threads.                                           *)
(***************************************************************************)
EXTENDS Integers, Sequences, FiniteSets, TLC

VARIABLES
    prog,          \* the experiment program this process executes
    plan,          \* run functions main has still to call (head: the current one)
    allowed,       \* logical CPUs the OS lets this process be pinned to
    clock,         \* CLOCK_MONOTONIC at its latest reading, a struct timespec
    dpc,           \* position of the main thread (the Driver)
    di,            \* the Driver's loop index i (create loop, join sequence)
    ready,         \* volatile int ready of the current run function
    start,         \* volatile int start of the current run function
    wpc,           \* position of each worker thread
    bind_ret,      \* per worker: <<>> or <<value returned by bind_to_cpu>>
    incs,          \* per worker: number of fetch-adds it performed on ready
    w_start,       \* per worker: <<>> or <<its local double start>>
    result,        \* per worker: <<>> or <<targ->result>>
    elapsed_time,  \* per worker: <<>> or <<targ->elapsed_time>>
    report,        \* the output fields the Driver read for its result lines
    wall_start,    \* <<>> or <<the Driver's wall_start>>
    wall_elapsed,  \* <<>> or <<the Driver's wall_elapsed>>
    release_at,    \* <<>> or <<clock reading at the store start = 1>>
    single,        \* the single-thread baseline's locals [ret, start, elapsed]
    mode,          \* argv[1], or "--all" where main defaults to it
    status,        \* <<>> or <<the exit status of the process>>
    arena,         \* the heap arenas: none yet, live, NULL, freed
    \* false_sharing's counters and the increment loops of its workers
    bad_base,      \* address of static struct bad_counters bad
    good_base,     \* address of static struct good_counters good
    use_good,      \* run_test's argument: 1 the padded layout, 0 the packed one
    mem,           \* the 8-byte words of bad and good, by address
    cnt_pc,        \* per worker: position in its increment loop
    cnt_i,         \* per worker: its loop counter i
    cnt_reg,       \* per worker: the value its increment has loaded
    \* the single-thread workloads and their cold-start tests
    kplan,         \* the tests main has still to run (head: the current one)
    kpc,           \* position of main within the current test
    karr,          \* the arena: the uint64_t array the workload works on
    indices,       \* the pre-generated index table (<<>> where there is none)
    cache,         \* the cache: the level each cached line was brought to
    ki,            \* loop index i (flush loop, inner loop of the workload)
    kiter,         \* loop index iter of the workload
    ksum,          \* the workload's running sum
    kseed,         \* the workload's local seed
    kflushed,      \* CLFLUSH instructions executed in the current test
    kfenced,       \* BARRIER() executed in the current test
    kidx,          \* the indices the current invocation has accessed
    kin,           \* the arena as the current invocation found it
    runs           \* the invocations that returned: [fn, in, idx, sum, out]

\* the state of the harness
hvars == <<prog, plan, allowed, clock, dpc, di, ready, start, wpc, bind_ret,
           incs, w_start, result, elapsed_time, report, wall_start,
           wall_elapsed, release_at, single, mode, status, arena>>

\* the state of false_sharing's counters
cvars == <<bad_base, good_base, use_good, mem, cnt_pc, cnt_i, cnt_reg>>

\* the state of the single-thread workloads
kvars == <<kplan, kpc, karr, indices, cache, ki, kiter, ksum, kseed,
           kflushed, kfenced, kidx, kin, runs>>

\* the state of the workloads, which the harness does not touch
workload_vars == <<cvars, kvars>>

vars == <<hvars, workload_vars>>

-----------------------------------------------------------------------------
(* Bounds of the model *)

\* the clock advances at most MaxTicks times during one process
MaxTicks == 1

-----------------------------------------------------------------------------
(* Program constants *)

NUM_THREADS == 4

NSEC_PER_SEC == 1000000000

\* the granularity at which the model lets CLOCK_MONOTONIC advance
TickNs == NSEC_PER_SEC \div 2

Programs == {"latency_hiding", "shared_cache", "false_sharing",
             "dcache_contention", "icache_contention", "combined_test"}

\* number of worker threads a multi-thread run of program p creates
NumWorkers(p) == IF p = "false_sharing" THEN NUM_THREADS ELSE 2

Workers == 0 .. (NUM_THREADS - 1)

\* only dcache_contention's worker tests the value bind_to_cpu returns
ChecksBind(p) == p = "dcache_contention"

\* the programs whose worker_thread calls print_cpu_bindind after binding
WorkerPrints(p) == p \in {"latency_hiding", "shared_cache",
                          "dcache_contention", "icache_contention"}

\* the programs whose single-thread baseline calls print_cpu_bindind
SinglePrints(p) == p \in {"shared_cache", "dcache_contention",
                          "icache_contention"}

\* the programs whose thread_arg_t has a result field
HasResult(p) == p # "false_sharing"

\* the programs whose Driver prints the workers' output fields
ReadsOutputs(p) == p # "combined_test"

\* the programs whose run functions begin with a printf of their title
\* (run_single and run_dual of combined_test print nothing themselves)
PrintsHeader(p) == p # "combined_test"

\* the workload worker w of run function fn of program p executes; its
\* name stands for the checksum it returns
Workload(p, fn, w) ==
    CASE p = "latency_hiding" ->
           IF w = 0 THEN "compute_intensive" ELSE "memory_intensive"
      [] p = "shared_cache" -> "sequential_access"
      [] p = "dcache_contention" -> "random_access_pattern"
      [] p = "icache_contention" ->
           IF w = 0 THEN "run_func_group_a" ELSE "run_func_group_b"
      [] p = "combined_test" ->
           IF fn = "run_dual(1)" THEN "process_with_prefetch"
                                 ELSE "process_no_prefetch"
      [] OTHER -> "increment"

\* the sets of CPUs a process may be restricted to: none (affinity calls
\* refused), a 4-CPU machine, the 16-CPU machine the code was written for;
\* allowed keeps of such a set the CPUs the program asks for
AllowedSets == { {}, 0 .. 3, 0 .. 15 }

-----------------------------------------------------------------------------
(* main: the run functions each mode calls, in order *)

Single(f) == [fn |-> f, n |-> 1, cpus |-> <<0>>]

Dual(f, c1, c2) == [fn |-> f, n |-> 2, cpus |-> <<c1, c2>>]

Test(f) == [fn |-> f, n |-> NUM_THREADS, cpus |-> <<0, 1, 2, 3>>]

\* the mode names main compares its mode with; main of combined_test never
\* looks at argc or argv
KnownModes(p) ==
    CASE p = "false_sharing" -> {"--bad", "--good", "--all"}
      [] p = "combined_test" -> {}
      [] OTHER -> {"--same-core", "--diff-core", "--single", "--all"}

\* the values of mode = argc > 1 ? argv[1] : "--all" that are tried: every
\* mode name and a string that is none; of false_sharing, whose runs have
\* four workers, --all, which calls what --bad and --good call; for
\* combined_test: no argument, and an argument
Modes(p) ==
    CASE p = "combined_test" -> {"(none)", "--bogus"}
      [] p = "false_sharing" -> {"--all", "--bogus"}
      [] OTHER -> KnownModes(p) \cup {"--bogus"}

\* main takes the else branch of its strcmp chain
TakesUsageBranch(p, m) == KnownModes(p) # {} /\ m \notin KnownModes(p)

\* who allocates the arenas of program p: main (large_array; array1 and
\* array2 of dcache_contention), each run function its own (combined_test),
\* or nobody (static arrays, or none at all)
ArenaOwner(p) ==
    CASE p \in {"latency_hiding", "dcache_contention"} -> "main"
      [] p = "combined_test" -> "run"
      [] OTHER -> "static"

\* aligned_alloc returns the arena or NULL
AllocOutcomes == {"live", "null"}

\* free(ptr): of a freed arena it is a double free, of NULL nothing
Free(a) ==
    CASE a = "live" -> "freed"
      [] a = "freed" -> "double free"
      [] OTHER -> a

\* latency_hiding frees large_array before return 1 of its usage branch,
\* dcache_contention returns without
FreesOnUsage(p) == p = "latency_hiding"

MainPlan(p, m) ==
    CASE p = "latency_hiding" ->
           CASE m = "--same-core" -> <<Dual("run_dual_thread", 0, 8)>>
             [] m = "--diff-core" -> <<Dual("run_dual_thread", 0, 1)>>
             [] m = "--single" -> <<Single("run_single_both")>>
             [] m = "--all" -> <<Single("run_single_compute"),
                                 Single("run_single_memory"),
                                 Single("run_single_both"),
                                 Dual("run_dual_thread", 0, 8),
                                 Dual("run_dual_thread", 0, 1)>>
             [] OTHER -> <<>>
      [] p \in {"shared_cache", "dcache_contention", "icache_contention"} ->
           CASE m = "--same-core" -> <<Dual("run_dual_thread", 0, 8)>>
             [] m = "--diff-core" -> <<Dual("run_dual_thread", 0, 1)>>
             [] m = "--single" -> <<Single("run_single_thread")>>
             [] m = "--all" -> <<Single("run_single_thread"),
                                 Dual("run_dual_thread", 0, 8),
                                 Dual("run_dual_thread", 0, 1)>>
             [] OTHER -> <<>>
      [] p = "false_sharing" ->
           CASE m = "--bad" -> <<Test("run_test(0)")>>
             [] m = "--good" -> <<Test("run_test(1)")>>
             [] m = "--all" -> <<Test("run_test(0)"), Test("run_test(1)")>>
             [] OTHER -> <<>>
      [] OTHER ->
           <<Single("run_single(0)"), Single("run_single(1)"),
             Dual("run_dual(0)", 0, 8), Dual("run_dual(1)", 0, 8),
             Dual("run_dual(0)", 0, 1), Dual("run_dual(1)", 0, 1)>>

\* the CPU ids program p passes to bind_to_cpu in some mode
UsedCpus(p) ==
    UNION { { r.cpus[i] : i \in 1 .. Len(r.cpus) } :
            r \in UNION { { MainPlan(p, m)[k] : k \in 1 .. Len(MainPlan(p, m)) } :
                          m \in Modes(p) } }

-----------------------------------------------------------------------------
(* common/cpu_bindind.h *)

\* sched_setaffinity is refused when the mask holds no CPU the process may
\* use; bind_to_cpu then returns -1, else 0
bind_to_cpu(cpu_id) == IF cpu_id \in allowed THEN 0 ELSE -1

\* a conversion that drops the seconds
get_time_sec_NsecOnly(ts) == ts.tv_nsec

\* ts.tv_sec + ts.tv_nsec * 1e-9, kept in nanoseconds: the double's value
\* times 1e9 (the conversion and the later subtractions round monotonically)
get_time_sec(ts) == ts.tv_sec * NSEC_PER_SEC + ts.tv_nsec

\* the timespec d nanoseconds after ts, with the carry into tv_sec
Advance(ts, d) ==
    [tv_sec  |-> ts.tv_sec + ((ts.tv_nsec + d) \div NSEC_PER_SEC),
     tv_nsec |-> (ts.tv_nsec + d) % NSEC_PER_SEC]

\* CLOCK_MONOTONIC when the process starts
ClockAtStart == [tv_sec |-> 0, tv_nsec |-> NSEC_PER_SEC - TickNs]

\* how often the clock has advanced since the process started
Ticks(ts) ==
    ((ts.tv_sec - ClockAtStart.tv_sec) * NSEC_PER_SEC
        + ts.tv_nsec - ClockAtStart.tv_nsec) \div TickNs

\* what clock_gettime(CLOCK_MONOTONIC) can return at a call: the time of the
\* latest reading or any later time
Now(ts) == { Advance(ts, k * TickNs) : k \in 0 .. (MaxTicks - Ticks(ts)) }

-----------------------------------------------------------------------------
(* The state after process start, before main calls its first run function *)

NoWorkers == [w \in Workers |-> "unborn"]

NoSeqs == [w \in Workers |-> <<>>]

NoSingle == [ret |-> <<>>, start |-> <<>>, elapsed |-> <<>>]

\* the harness specifications leave the workloads' memory out: a workload is
\* one step of them, and the variables of the workloads keep these values
NoCounters ==
    /\ bad_base = 0
    /\ good_base = 0
    /\ use_good = 0
    /\ mem = <<>>
    /\ cnt_pc = <<>>
    /\ cnt_i = <<>>
    /\ cnt_reg = <<>>

\* likewise the single-thread workloads
NoKernel ==
    /\ kplan = <<>>
    /\ kpc = "main"
    /\ karr = <<>>
    /\ indices = <<>>
    /\ cache = <<>>
    /\ ki = 0
    /\ kiter = 0
    /\ ksum = 0
    /\ kseed = 0
    /\ kflushed = 0
    /\ kfenced = FALSE
    /\ kidx = <<>>
    /\ kin = <<>>
    /\ runs = <<>>

Init ==
    /\ NoCounters
    /\ NoKernel
    /\ prog \in Programs
    /\ \E m \in Modes(prog) : mode = m /\ plan = MainPlan(prog, m)
    /\ \E S \in AllowedSets : allowed = S \cap UsedCpus(prog)
    /\ status = <<>>
    /\ arena = "none"
    /\ clock = ClockAtStart
    /\ dpc = "start"
    /\ di = 0
    /\ ready = 0
    /\ start = 0
    /\ wpc = NoWorkers
    /\ bind_ret = NoSeqs
    /\ incs = [w \in Workers |-> 0]
    /\ w_start = NoSeqs
    /\ result = NoSeqs
    /\ elapsed_time = NoSeqs
    /\ report = {}
    /\ wall_start = <<>>
    /\ wall_elapsed = <<>>
    /\ release_at = <<>>
    /\ single = NoSingle

-----------------------------------------------------------------------------
(* main and the single-thread baselines (run_single_thread,                *)
(* run_single_compute, run_single_memory, run_single_both, run_single)     *)

Cur == Head(plan)

N == Cur.n

\* a baseline that sets up the rendezvous and runs its workload in a thread
CallSingle_ViaBarrier ==
    /\ dpc = "main"
    /\ plan # <<>>
    /\ Cur.n = 1
    /\ ready' = 0
    /\ start' = 0
    /\ di' = 0
    /\ dpc' = "create"
    /\ UNCHANGED <<prog, plan, allowed, clock, wpc, bind_ret, incs, w_start,
                   result, elapsed_time, report, wall_start, wall_elapsed,
                   release_at, single>>
    /\ UNCHANGED <<mode, status, arena>>
    /\ UNCHANGED workload_vars

\* the arena a run function works on: the one main allocated, or, in
\* combined_test, what its own aligned_alloc calls return (NULL if one of
\* them fails); it passes the pointers to memset without looking at them
RunArena == IF ArenaOwner(prog) = "run" THEN AllocOutcomes ELSE {arena}

\* main calls the next single-thread baseline; run_single of combined_test
\* allocates its array and fills it: memset (NULL, 0x55, ARRAY_SIZE) stores
\* through a null pointer and the process dies of SIGSEGV
CallSingle ==
    /\ dpc = "main"
    /\ plan # <<>>
    /\ Cur.n = 1
    /\ \E a \in RunArena :
          /\ arena' = a
          /\ dpc' = IF a = "null" THEN "segv" ELSE "s_bind"
    /\ UNCHANGED <<prog, plan, allowed, clock, di, ready, start, wpc,
                   bind_ret, incs, w_start, result, elapsed_time, report,
                   wall_start, wall_elapsed, release_at, single>>
    /\ UNCHANGED <<mode, status>>
    /\ UNCHANGED workload_vars

\* bind_to_cpu(0); the value it returns is dropped
SingleBind ==
    /\ dpc = "s_bind"
    /\ single' = [single EXCEPT !.ret = <<bind_to_cpu(Cur.cpus[1])>>]
    /\ dpc' = IF SinglePrints(prog) THEN "s_print" ELSE "s_t0"
    /\ UNCHANGED <<prog, plan, allowed, clock, di, ready, start, wpc,
                   bind_ret, incs, w_start, result, elapsed_time, report,
                   wall_start, wall_elapsed, release_at>>
    /\ UNCHANGED <<mode, status, arena>>
    /\ UNCHANGED workload_vars

\* print_cpu_bindind("SingleThread");
SinglePrint ==
    /\ dpc = "s_print"
    /\ dpc' = "s_t0"
    /\ UNCHANGED <<prog, plan, allowed, clock, di, ready, start, wpc,
                   bind_ret, incs, w_start, result, elapsed_time, report,
                   wall_start, wall_elapsed, release_at, single>>
    /\ UNCHANGED <<mode, status, arena>>
    /\ UNCHANGED workload_vars

\* double start = get_time_sec();
SingleStartTimer ==
    /\ dpc = "s_t0"
    /\ \E now \in Now(clock) :
          /\ clock' = now
          /\ single' = [single EXCEPT !.start = <<get_time_sec(now)>>]
    /\ dpc' = "s_work"
    /\ UNCHANGED <<prog, plan, allowed, di, ready, start, wpc,
                   bind_ret, incs, w_start, result, elapsed_time, report,
                   wall_start, wall_elapsed, release_at>>
    /\ UNCHANGED <<mode, status, arena>>
    /\ UNCHANGED workload_vars

\* the workload returns; double elapsed = get_time_sec() - start;
SingleStopTimer ==
    /\ dpc = "s_work"
    /\ \E now \in Now(clock) :
          /\ clock' = now
          /\ single' = [single EXCEPT
                          !.elapsed = <<get_time_sec(now) - single.start[1]>>]
    /\ dpc' = "report"
    /\ UNCHANGED <<prog, plan, allowed, di, ready, start, wpc,
                   bind_ret, incs, w_start, result, elapsed_time, report,
                   wall_start, wall_elapsed, release_at>>
    /\ UNCHANGED <<mode, status, arena>>
    /\ UNCHANGED workload_vars

\* a run function whose locals ready and start have no initialisers: they
\* hold what the stack held
CallMulti_Uninitialised ==
    /\ dpc = "main"
    /\ plan # <<>>
    /\ Cur.n > 1
    /\ ready' \in {0, Cur.n}
    /\ start' \in {0, 1}
    /\ di' = 0
    /\ \E a \in RunArena :
          /\ arena' = a
          /\ dpc' = IF a = "null" THEN "segv" ELSE "create"
    /\ UNCHANGED <<prog, plan, allowed, clock, wpc, bind_ret, incs, w_start,
                   result, elapsed_time, report, wall_start, wall_elapsed,
                   release_at, single>>
    /\ UNCHANGED <<mode, status>>
    /\ UNCHANGED workload_vars

\* main calls the next multi-thread run function, whose locals
\* volatile int ready = 0, start = 0 come into being
CallMulti ==
    /\ dpc = "main"
    /\ plan # <<>>
    /\ Cur.n > 1
    /\ ready' = 0
    /\ start' = 0
    /\ di' = 0
    /\ \E a \in RunArena :
          /\ arena' = a
          /\ dpc' = IF a = "null" THEN "segv" ELSE "create"
    /\ UNCHANGED <<prog, plan, allowed, clock, wpc, bind_ret, incs, w_start,
                   result, elapsed_time, report, wall_start, wall_elapsed,
                   release_at, single>>
    /\ UNCHANGED <<mode, status>>
    /\ UNCHANGED workload_vars

\* the printf calls that report a run: those of a multi-thread Driver read
\* args[i].result and args[i].elapsed_time of every worker (combined_test
\* prints wall times only, from main, after run_single or run_dual has
\* freed its arrays)
DriverReport ==
    /\ dpc = "report"
    /\ report' = IF Cur.n > 1 /\ ReadsOutputs(prog)
                    THEN { [w |-> w, result |-> result[w],
                            elapsed_time |-> elapsed_time[w]] :
                           w \in 0 .. (Cur.n - 1) }
                    ELSE {}
    /\ arena' = IF ArenaOwner(prog) = "run" THEN Free(arena) ELSE arena
    /\ dpc' = "return"
    /\ UNCHANGED <<prog, plan, allowed, clock, di, ready, start, wpc,
                   bind_ret, incs, w_start, result, elapsed_time,
                   wall_start, wall_elapsed, release_at, single>>
    /\ UNCHANGED <<mode, status>>
    /\ UNCHANGED workload_vars

\* the run function returns to main: its locals and its joined threads are
\* gone
RunReturn ==
    /\ dpc = "return"
    /\ plan' = Tail(plan)
    /\ dpc' = "main"
    /\ di' = 0
    /\ ready' = 0
    /\ start' = 0
    /\ wpc' = NoWorkers
    /\ bind_ret' = NoSeqs
    /\ incs' = [w \in Workers |-> 0]
    /\ w_start' = NoSeqs
    /\ result' = NoSeqs
    /\ elapsed_time' = NoSeqs
    /\ report' = {}
    /\ wall_start' = <<>>
    /\ wall_elapsed' = <<>>
    /\ release_at' = <<>>
    /\ single' = NoSingle
    /\ UNCHANGED <<prog, allowed, clock>>
    /\ UNCHANGED <<mode, status, arena>>
    /\ UNCHANGED workload_vars

\* main allocates its arenas, if it has any; when aligned_alloc returns
\* NULL: perror, return 1; else it fills them; then the printf calls of
\* the title
MainAlloc ==
    /\ dpc = "start"
    /\ \E a \in (IF ArenaOwner(prog) = "main" THEN AllocOutcomes ELSE {arena}) :
          /\ arena' = a
          /\ status' = IF a = "null" THEN <<1>> ELSE status
          /\ dpc' = IF a = "null" THEN "exit" ELSE "main"
    /\ UNCHANGED <<prog, plan, allowed, clock, di, ready, start, wpc,
                   bind_ret, incs, w_start, result, elapsed_time, report,
                   wall_start, wall_elapsed, release_at, single, mode>>
    /\ UNCHANGED workload_vars

\* the else branch of main: the usage line, return 1
MainUsage ==
    /\ dpc = "main"
    /\ TakesUsageBranch(prog, mode)
    /\ arena' = IF FreesOnUsage(prog) THEN Free(arena) ELSE arena
    /\ status' = <<1>>
    /\ dpc' = "exit"
    /\ UNCHANGED <<prog, plan, allowed, clock, di, ready, start, wpc,
                   bind_ret, incs, w_start, result, elapsed_time, report,
                   wall_start, wall_elapsed, release_at, single, mode>>
    /\ UNCHANGED workload_vars

\* a main that frees the arenas whoever allocated them
MainReturn_FreesAny ==
    /\ dpc = "main"
    /\ plan = <<>>
    /\ ~TakesUsageBranch(prog, mode)
    /\ arena' = Free(arena)
    /\ status' = <<0>>
    /\ dpc' = "exit"
    /\ UNCHANGED <<prog, plan, allowed, clock, di, ready, start, wpc,
                   bind_ret, incs, w_start, result, elapsed_time, report,
                   wall_start, wall_elapsed, release_at, single, mode>>
    /\ UNCHANGED workload_vars

\* main has called every run function of its mode: it frees the arenas it
\* allocated and returns 0
MainReturn ==
    /\ dpc = "main"
    /\ plan = <<>>
    /\ ~TakesUsageBranch(prog, mode)
    /\ arena' = IF ArenaOwner(prog) = "main" THEN Free(arena) ELSE arena
    /\ status' = <<0>>
    /\ dpc' = "exit"
    /\ UNCHANGED <<prog, plan, allowed, clock, di, ready, start, wpc,
                   bind_ret, incs, w_start, result, elapsed_time, report,
                   wall_start, wall_elapsed, release_at, single, mode>>
    /\ UNCHANGED workload_vars

-----------------------------------------------------------------------------
(* The Driver of a multi-thread run: run_dual_thread, run_test, run_dual   *)

DriverUnchanged == <<prog, plan, allowed, bind_ret, incs, w_start, result,
                     elapsed_time, report, single, mode, status, arena,
                     workload_vars>>

\* pthread_create(&threads[i], NULL, worker_thread, &args[i]) starts thread i
DriverCreate ==
    /\ dpc = "create"
    /\ wpc' = [wpc EXCEPT ![di] = "bind"]
    /\ di' = di + 1
    /\ dpc' = IF di + 1 = N THEN "poll" ELSE "create"
    /\ UNCHANGED <<clock, ready, start, wall_start, wall_elapsed, release_at>>
    /\ UNCHANGED DriverUnchanged

\* pthread_create fails (EAGAIN); its return value is not looked at
DriverCreateFails ==
    /\ dpc = "create"
    /\ wpc' = [wpc EXCEPT ![di] = "nothread"]
    /\ di' = di + 1
    /\ dpc' = IF di + 1 = N THEN "poll" ELSE "create"
    /\ UNCHANGED <<clock, ready, start, wall_start, wall_elapsed, release_at>>
    /\ UNCHANGED DriverUnchanged

\* a poll that stops waiting one worker early
DriverPoll_OneShort ==
    /\ dpc = "poll"
    /\ dpc' = IF ready < N - 1 THEN "usleep" ELSE "wall_start"
    /\ UNCHANGED <<clock, di, ready, start, wpc, wall_start, wall_elapsed,
                   release_at>>
    /\ UNCHANGED DriverUnchanged

\* while (ready < N) ...: one evaluation of the loop condition
DriverPoll ==
    /\ dpc = "poll"
    /\ dpc' = IF ready < N THEN "usleep" ELSE "wall_start"
    /\ UNCHANGED <<clock, di, ready, start, wpc, wall_start, wall_elapsed,
                   release_at>>
    /\ UNCHANGED DriverUnchanged

\* an if in place of the while: after one sleep the Driver goes on
DriverUsleep_Once ==
    /\ dpc = "usleep"
    /\ dpc' = "wall_start"
    /\ UNCHANGED <<clock, di, ready, start, wpc, wall_start, wall_elapsed,
                   release_at>>
    /\ UNCHANGED DriverUnchanged

\* ... usleep(100);
DriverUsleep ==
    /\ dpc = "usleep"
    /\ dpc' = "poll"
    /\ UNCHANGED <<clock, di, ready, start, wpc, wall_start, wall_elapsed,
                   release_at>>
    /\ UNCHANGED DriverUnchanged

\* double wall_start = get_time_sec();
DriverWallStart ==
    /\ dpc = "wall_start"
    /\ \E now \in Now(clock) :
          /\ clock' = now
          /\ wall_start' = <<get_time_sec(now)>>
    /\ dpc' = "release"
    /\ UNCHANGED <<di, ready, start, wpc, wall_elapsed, release_at>>
    /\ UNCHANGED DriverUnchanged

\* start = 1;
DriverRelease ==
    /\ dpc = "release"
    /\ start' = 1
    /\ \E now \in Now(clock) :
          /\ clock' = now
          /\ release_at' = <<get_time_sec(now)>>
    /\ di' = 0
    /\ dpc' = "join"
    /\ UNCHANGED <<ready, wpc, wall_start, wall_elapsed>>
    /\ UNCHANGED DriverUnchanged

\* a join that does not wait for the thread to return
DriverJoin_NoWait ==
    /\ dpc = "join"
    /\ wpc' = wpc
    /\ di' = di + 1
    /\ dpc' = IF di + 1 = N THEN "wall_end" ELSE "join"
    /\ UNCHANGED <<clock, ready, start, wall_start, wall_elapsed, release_at>>
    /\ UNCHANGED DriverUnchanged

\* pthread_join(threads[i], NULL) returns once thread i has returned
DriverJoin ==
    /\ dpc = "join"
    /\ wpc[di] = "exited"
    /\ wpc' = [wpc EXCEPT ![di] = "joined"]
    /\ di' = di + 1
    /\ dpc' = IF di + 1 = N THEN "wall_end" ELSE "join"
    /\ UNCHANGED <<clock, ready, start, wall_start, wall_elapsed, release_at>>
    /\ UNCHANGED DriverUnchanged

\* double wall_elapsed = get_time_sec() - wall_start;
DriverWallEnd ==
    /\ dpc = "wall_end"
    /\ \E now \in Now(clock) :
          /\ clock' = now
          /\ wall_elapsed' = <<get_time_sec(now) - wall_start[1]>>
    /\ dpc' = "report"
    /\ UNCHANGED <<di, ready, start, wpc, wall_start, release_at>>
    /\ UNCHANGED DriverUnchanged

-----------------------------------------------------------------------------
(* worker_thread                                                           *)
(*                                                                         *)
(* ready and start are volatile int, one aligned word each, on x86 (the    *)
(* code uses pause and mfence): every read returns a value some thread     *)
(* stored, stores become visible in program order, and a read that misses  *)
(* a store is a read that came before it.  Each access is one step here.   *)

WorkerUnchanged == <<prog, plan, allowed, dpc, di, start, report,
                     wall_start, wall_elapsed, release_at, single, mode,
                     status, arena, workload_vars>>

\* a worker that goes to the spin without the fetch-add
WorkerBind_SkipReady(w) ==
    /\ wpc[w] = "bind"
    /\ bind_ret' = [bind_ret EXCEPT ![w] = <<bind_to_cpu(Cur.cpus[w + 1])>>]
    /\ wpc' = [wpc EXCEPT ![w] = "spin"]
    /\ UNCHANGED <<clock, ready, incs, w_start, result,
                   elapsed_time>>
    /\ UNCHANGED WorkerUnchanged

\* a worker that takes its start timestamp before it binds and prints
WorkerBind_TimerFirst(w) ==
    /\ wpc[w] = "bind"
    /\ LET r == bind_to_cpu(Cur.cpus[w + 1]) IN
         /\ bind_ret' = [bind_ret EXCEPT ![w] = <<r>>]
         /\ wpc' = [wpc EXCEPT ![w] = IF ChecksBind(prog) /\ r # 0
                                        THEN "exited"
                                        ELSE IF WorkerPrints(prog)
                                               THEN "print" ELSE "inc"]
    /\ w_start' = [w_start EXCEPT ![w] = <<get_time_sec(clock)>>]
    /\ UNCHANGED <<clock, ready, incs, result, elapsed_time>>
    /\ UNCHANGED WorkerUnchanged

\* bind_to_cpu(targ->cpu_id); dcache_contention's worker returns NULL when
\* the call fails, every other worker goes on whatever it returned
WorkerBind(w) ==
    /\ wpc[w] = "bind"
    /\ LET r == bind_to_cpu(Cur.cpus[w + 1]) IN
         /\ bind_ret' = [bind_ret EXCEPT ![w] = <<r>>]
         /\ wpc' = [wpc EXCEPT ![w] = IF ChecksBind(prog) /\ r # 0
                                        THEN "exited"
                                        ELSE IF WorkerPrints(prog)
                                               THEN "print" ELSE "inc"]
    /\ UNCHANGED <<clock, ready, incs, w_start, result,
                   elapsed_time>>
    /\ UNCHANGED WorkerUnchanged

\* print_cpu_bindind(...);
WorkerPrint(w) ==
    /\ wpc[w] = "print"
    /\ wpc' = [wpc EXCEPT ![w] = "inc"]
    /\ UNCHANGED <<clock, ready, bind_ret, incs, w_start, result,
                   elapsed_time>>
    /\ UNCHANGED WorkerUnchanged

\* ready incremented by a plain load and store: the increment of a worker
\* that loaded before another one stored is lost
WorkerReady_LostUpdate(w) ==
    /\ wpc[w] = "inc"
    /\ ready' \in {ready, ready + 1}
    /\ incs' = [incs EXCEPT ![w] = @ + 1]
    /\ wpc' = [wpc EXCEPT ![w] = "spin"]
    /\ UNCHANGED <<clock, bind_ret, w_start, result, elapsed_time>>
    /\ UNCHANGED WorkerUnchanged

\* __atomic_fetch_add(targ->ready, 1, __ATOMIC_SEQ_CST);
WorkerReady(w) ==
    /\ wpc[w] = "inc"
    /\ ready' = ready + 1
    /\ incs' = [incs EXCEPT ![w] = @ + 1]
    /\ wpc' = [wpc EXCEPT ![w] = "spin"]
    /\ UNCHANGED <<clock, bind_ret, w_start, result, elapsed_time>>
    /\ UNCHANGED WorkerUnchanged

\* the loop condition inverted: the worker leaves the spin while start == 0
WorkerSpin_Inverted(w) ==
    /\ wpc[w] = "spin"
    /\ wpc' = [wpc EXCEPT ![w] = IF start # 0 THEN "pause" ELSE "t0"]
    /\ UNCHANGED <<clock, ready, bind_ret, incs, w_start, result,
                   elapsed_time>>
    /\ UNCHANGED WorkerUnchanged

\* the flag read once before the loop (no volatile): the worker never sees
\* the store
WorkerSpin_Hoisted(w) ==
    /\ wpc[w] = "spin"
    /\ wpc' = [wpc EXCEPT ![w] = "pause"]
    /\ UNCHANGED <<clock, ready, bind_ret, incs, w_start, result,
                   elapsed_time>>
    /\ UNCHANGED WorkerUnchanged

\* while (*targ->start == 0) ...: one read of the flag
WorkerSpin(w) ==
    /\ wpc[w] = "spin"
    /\ wpc' = [wpc EXCEPT ![w] = IF start = 0 THEN "pause" ELSE "t0"]
    /\ UNCHANGED <<clock, ready, bind_ret, incs, w_start, result,
                   elapsed_time>>
    /\ UNCHANGED WorkerUnchanged

\* a break in the loop body: one pause and the worker goes on
WorkerPause_Break(w) ==
    /\ wpc[w] = "pause"
    /\ wpc' = [wpc EXCEPT ![w] = "t0"]
    /\ UNCHANGED <<clock, ready, bind_ret, incs, w_start, result,
                   elapsed_time>>
    /\ UNCHANGED WorkerUnchanged

\* ... __asm__ __volatile__("pause" ::: "memory");
WorkerPause(w) ==
    /\ wpc[w] = "pause"
    /\ wpc' = [wpc EXCEPT ![w] = "spin"]
    /\ UNCHANGED <<clock, ready, bind_ret, incs, w_start, result,
                   elapsed_time>>
    /\ UNCHANGED WorkerUnchanged

\* a worker that zeroes its elapsed_time before the workload and stores it
\* again afterwards
WorkerStartTimer_Prestore(w) ==
    /\ wpc[w] = "t0"
    /\ \E now \in Now(clock) :
          /\ clock' = now
          /\ w_start' = [w_start EXCEPT ![w] = <<get_time_sec(now)>>]
    /\ elapsed_time' = [elapsed_time EXCEPT ![w] = <<0>>]
    /\ wpc' = [wpc EXCEPT ![w] = "work"]
    /\ UNCHANGED <<ready, bind_ret, incs, result>>
    /\ UNCHANGED WorkerUnchanged

\* double start = get_time_sec();
WorkerStartTimer(w) ==
    /\ wpc[w] = "t0"
    /\ \E now \in Now(clock) :
          /\ clock' = now
          /\ w_start' = [w_start EXCEPT ![w] = <<get_time_sec(now)>>]
    /\ wpc' = [wpc EXCEPT ![w] = "work"]
    /\ UNCHANGED <<ready, bind_ret, incs, result, elapsed_time>>
    /\ UNCHANGED WorkerUnchanged

\* targ->result = the workload's checksum;
\* targ->elapsed_time = get_time_sec() - start; return NULL;
WorkerFinish(w) ==
    /\ wpc[w] = "work"
    /\ result' = [result EXCEPT
                    ![w] = IF HasResult(prog)
                             THEN <<Workload(prog, Cur.fn, w)>> ELSE <<>>]
    /\ \E now \in Now(clock) :
          /\ clock' = now
          /\ elapsed_time' = [elapsed_time EXCEPT
                                ![w] = <<get_time_sec(now) - w_start[w][1]>>]
    /\ wpc' = [wpc EXCEPT ![w] = "exited"]
    /\ UNCHANGED <<ready, bind_ret, incs, w_start>>
    /\ UNCHANGED WorkerUnchanged

-----------------------------------------------------------------------------

Driver ==
    \/ MainAlloc
    \/ MainUsage
    \/ CallSingle
    \/ SingleBind
    \/ SinglePrint
    \/ SingleStartTimer
    \/ SingleStopTimer
    \/ CallMulti
    \/ DriverCreate
    \/ DriverCreateFails
    \/ DriverPoll
    \/ DriverUsleep
    \/ DriverWallStart
    \/ DriverRelease
    \/ DriverJoin
    \/ DriverWallEnd
    \/ DriverReport
    \/ RunReturn
    \/ MainReturn

Worker(w) ==
    \/ WorkerBind(w)
    \/ WorkerPrint(w)
    \/ WorkerReady(w)
    \/ WorkerSpin(w)
    \/ WorkerPause(w)
    \/ WorkerStartTimer(w)
    \/ WorkerFinish(w)

Next ==
    \/ Driver
    \/ \E w \in Workers : Worker(w)

Spec == Init /\ [][Next]_vars

\* every thread that can take a step is eventually scheduled
FairSpec ==
    /\ Spec
    /\ WF_vars(Driver)
    /\ \A w \in Workers : WF_vars(Worker(w))

-----------------------------------------------------------------------------
(* Properties of the rendezvous *)

\* a multi-thread run function is executing
InMulti ==
    dpc \notin {"start", "main", "segv", "exit"} /\ plan # <<>> /\ Cur.n > 1

\* worker w has read the clock that opens its timed region
Started(w) == w_start[w] # <<>>

\* worker w has stored its elapsed_time
Finished(w) == elapsed_time[w] # <<>>

\* the clock reading that closed worker w's timed region
w_end(w) == w_start[w][1] + elapsed_time[w][1]

\* the clock reading the Driver took after the last join
wall_end == wall_start[1] + wall_elapsed[1]

\* C1: no worker's timed region begins while start == 0: a worker that is
\* about to take, or has taken, its first timestamp sees the flag is 1
C1_NoTimedRegionBeforeRelease ==
    \A w \in Workers :
        (wpc[w] \in {"t0", "work"} \/ Started(w)) =>
            start = 1 /\ release_at # <<>>

C1_Witness ==
    \E w \in Workers : wpc[w] = "work" /\ Started(w) /\ start = 1

\* C2: no false start: the Driver's wall_start is <= the start timestamp of
\* every worker
C2_NoFalseStart ==
    \A w \in Workers :
        Started(w) => wall_start # <<>> /\ wall_start[1] <= w_start[w][1]

C2_Witness ==
    /\ \E w \in Workers : Started(w) /\ wall_start[1] < w_start[w][1]
    /\ \E w \in Workers : Started(w) /\ wall_start[1] = w_start[w][1]

\* C3: within a run the start flag changes once, from 0 to 1, by the
\* Driver's store and with ready == N; it is 0 before that store and 1 after
C3_StartSetOnce ==
    /\ [](InMulti =>
            (start = 1 <=> dpc \in {"join", "wall_end", "report", "return"}))
    /\ [][(start' # start /\ dpc # "return") =>
            /\ start = 0 /\ start' = 1
            /\ dpc = "release" /\ dpc' = "join"
            /\ ready = N
            /\ wpc' = wpc]_vars

C3_Witness == InMulti /\ start = 1 /\ ready = N /\ dpc = "join"

\* C4: a worker is in or past the spin only after its own fetch-add, and it
\* did the fetch-add only after bind_to_cpu returned
C4_BindThenReadyThenSpin ==
    \A w \in Workers :
        /\ (wpc[w] \in {"spin", "pause", "t0", "work"} \/ Started(w)) =>
               incs[w] = 1
        /\ incs[w] > 0 => Len(bind_ret[w]) = 1

C4_Witness ==
    \E w \in Workers : wpc[w] = "t0" /\ incs[w] = 1 /\ Len(bind_ret[w]) = 1

\* C5: once the Driver has joined all N workers, ready == N and start == 1
C5_AfterJoin ==
    (InMulti /\ dpc \in {"wall_end", "report", "return"}) =>
        ready = N /\ start = 1

C5_Witness ==
    InMulti /\ dpc = "wall_end" /\ \A w \in 0 .. (N - 1) : wpc[w] = "joined"

\* C6: in a completed run every worker's timed region lies inside the
\* Driver's window: wall_start <= start <= end <= wall_end, so that
\* 0 <= elapsed_time <= wall_elapsed
C6_NoStraggler ==
    (InMulti /\ dpc \in {"report", "return"}) =>
        \A w \in 0 .. (N - 1) :
            /\ Started(w) /\ Finished(w)
            /\ wall_start[1] <= w_start[w][1]
            /\ w_start[w][1] <= w_end(w)
            /\ w_end(w) <= wall_end
            /\ 0 <= elapsed_time[w][1]
            /\ elapsed_time[w][1] <= wall_elapsed[1]

C6_Witness ==
    /\ InMulti /\ dpc = "report"
    /\ \E w \in 0 .. (N - 1) : Finished(w) /\ 0 < elapsed_time[w][1]
    /\ \E w \in 0 .. (N - 1) :
          Finished(w) /\ elapsed_time[w][1] < wall_elapsed[1]

\* C7 as claimed: the timed regions of any two workers of a run overlap
C7_WindowsOverlap ==
    \A a, b \in Workers :
        (a # b /\ Finished(a) /\ Finished(b)) => w_start[a][1] <= w_end(b)

\* C7 as amended: the release is one point that every timed region follows:
\* no worker's region starts, and so none ends, before the store start = 1
C7_RegionsFollowRelease ==
    \A a, b \in Workers :
        (Started(a) /\ Finished(b)) =>
            /\ release_at # <<>>
            /\ release_at[1] <= w_start[a][1]
            /\ release_at[1] <= w_end(b)

C7_Witness ==
    \E a, b \in Workers :
        /\ a # b /\ Finished(a) /\ Finished(b)
        /\ w_end(a) < w_start[b][1]
        /\ release_at[1] <= w_start[a][1]

-----------------------------------------------------------------------------
(* Termination of the rendezvous and failure handling *)

\* the Driver is in its poll loop while (ready < N) usleep(100);
InPoll == dpc \in {"poll", "usleep"}

\* worker w is in its spin loop on the start flag
InSpin(w) == wpc[w] \in {"spin", "pause"}

\* every worker thread of the current run has been created
AllCreated == \A w \in 0 .. (N - 1) : wpc[w] \notin {"unborn", "nothread"}

\* every bind_to_cpu call of the current run succeeds
AllBindsSucceed == \A w \in 0 .. (N - 1) : bind_to_cpu(Cur.cpus[w + 1]) = 0

\* C8: with all N threads created and every bind succeeding, fair scheduling
\* takes the run from the Driver's poll to its end: the flag is set, every
\* worker has left its spin and finished, and the joins have returned
C8_BarrierTerminates ==
    (InMulti /\ InPoll /\ AllCreated /\ AllBindsSucceed) ~>
        (/\ dpc = "report"
         /\ start = 1
         /\ \A w \in 0 .. (N - 1) : wpc[w] = "joined" /\ Finished(w))

C8_Witness ==
    /\ InMulti /\ dpc = "report" /\ AllBindsSucceed
    /\ \A w \in 0 .. (N - 1) : wpc[w] = "joined" /\ Finished(w)

\* C9 as claimed: neither the Driver's poll loop nor a worker's spin on the
\* start flag lasts forever, whether or not every worker reaches the ready
\* state
C9_NoIndefiniteWait ==
    /\ InPoll ~> ~InPoll
    /\ \A w \in Workers : InSpin(w) ~> ~InSpin(w)

\* C10 as claimed: a caller whose bind_to_cpu returned -1 never enters its
\* timed region and records no elapsed time
C10_AbortOnBindFailure ==
    /\ \A w \in Workers :
          bind_ret[w] = <<-1>> =>
              /\ wpc[w] \notin {"t0", "work"}
              /\ ~Started(w)
              /\ ~Finished(w)
    /\ single.ret = <<-1>> =>
          /\ dpc \notin {"s_t0", "s_work"}
          /\ single.start = <<>>
          /\ single.elapsed = <<>>

-----------------------------------------------------------------------------
(* Output fields, single-thread baselines, console output *)

\* worker w has returned from worker_thread
Terminated(w) == wpc[w] \in {"exited", "joined"}

\* worker w gave up on a failed bind_to_cpu
Aborted(w) == ChecksBind(prog) /\ bind_ret[w] = <<-1>>

\* a step stores into an output field of worker w's thread_arg_t
OutputStore(w) ==
    /\ dpc # "return"
    /\ result'[w] # result[w] \/ elapsed_time'[w] # elapsed_time[w]

\* the step is worker w's own return from the workload: its first stores
\* into its output fields, with which it terminates
OwnFirstStore(w) ==
    /\ wpc[w] = "work" /\ wpc'[w] = "exited"
    /\ result[w] = <<>> /\ elapsed_time[w] = <<>>
    /\ elapsed_time'[w] # <<>>
    /\ HasResult(prog) => result'[w] # <<>>

\* the Driver's reads of the output fields come after the joins and return
\* what the workers stored
ReadsFollowJoins ==
    (dpc = "report" /\ dpc' = "return") =>
        \A r \in report' :
            /\ wpc[r.w] = "joined"
            /\ r.elapsed_time = elapsed_time[r.w] /\ r.elapsed_time # <<>>
            /\ r.result = result[r.w]
            /\ HasResult(prog) => r.result # <<>>

\* C11 as claimed: every worker stores each of its output fields exactly
\* once before it terminates, nobody else stores them, and the Driver reads
\* them only after the worker's join has returned
C11_OutputsWrittenExactlyOnce ==
    /\ [](\A w \in Workers : Terminated(w) => Finished(w))
    /\ [][(\A w \in Workers : OutputStore(w) => OwnFirstStore(w))
            /\ ReadsFollowJoins]_vars

\* C11: every worker stores each of its output fields at most once, itself,
\* as it terminates; a terminated worker has stored them unless it gave up
\* on a failed bind; the Driver reads them only after the worker's join has
\* returned
C11_OutputsWrittenAtMostOnce ==
    /\ [](\A w \in Workers : Terminated(w) => Finished(w) \/ Aborted(w))
    /\ [][(\A w \in Workers : OutputStore(w) => OwnFirstStore(w))
            /\ ReadsFollowJoins]_vars

C11_Witness ==
    /\ InMulti /\ dpc = "return"
    /\ Cardinality(report) = N
    /\ \A r \in report : r.elapsed_time = elapsed_time[r.w] /\ Finished(r.w)

\* main is inside a single-thread baseline
InSingle ==
    dpc \notin {"start", "main", "segv", "exit"} /\ plan # <<>> /\ Cur.n = 1

\* the statements of a single-thread baseline: none of them is a thread
\* creation, the poll of ready, the store to start or a join
SinglePositions == {"s_bind", "s_print", "s_t0", "s_work", "report", "return"}

\* C12: a single-thread baseline has no rendezvous: the caller itself calls
\* bind_to_cpu before its timed region, no thread exists, and no statement
\* of it reads or writes a ready counter or a start flag
C12_SingleHasNoBarrier ==
    /\ [](InSingle =>
            /\ dpc \in SinglePositions
            /\ wpc = NoWorkers
            /\ ready = 0 /\ start = 0
            /\ single.start # <<>> => Len(single.ret) = 1)
    /\ [][InSingle => ready' = ready /\ start' = start /\ wpc' = wpc]_vars

C12_Witness ==
    /\ InSingle /\ dpc = "report"
    /\ Len(single.ret) = 1 /\ single.elapsed # <<>>
    /\ wpc = NoWorkers

-----------------------------------------------------------------------------
(* The output of a run and its timed windows.                              *)

\* worker w writes to stdout or stderr in this step: print_cpu_bindind, or
\* the perror of a bind_to_cpu that fails (and the fprintf of
\* dcache_contention's worker that follows it)
WorkerOutput(w) ==
    \/ wpc[w] = "print" /\ wpc'[w] = "inc"
    \/ wpc[w] = "bind" /\ bind_ret'[w] = <<-1>>

\* the main thread writes in this step: the title of the program or the
\* perror of a failed allocation, the usage line, the title of a run function, the
\* perror of a failing bind_to_cpu(0), print_cpu_bindind("SingleThread")
\* or the result lines
DriverOutput ==
    \/ dpc = "start" /\ dpc' # dpc
    \/ dpc = "main" /\ dpc' = "exit" /\ status' = <<1>>
    \/ dpc = "main" /\ dpc' \in {"s_bind", "create"} /\ PrintsHeader(prog)
    \/ dpc = "s_bind" /\ dpc' # dpc /\ single'.ret = <<-1>>
    \/ dpc = "s_print" /\ dpc' = "s_t0"
    \/ dpc = "report" /\ dpc' = "return"

\* some timed window is open: a worker between its two timestamps, the
\* Driver between wall_start and wall_end, or a baseline between its own
WindowOpen ==
    \/ \E w \in Workers : Started(w) /\ ~Finished(w)
    \/ wall_start # <<>> /\ wall_elapsed = <<>>
    \/ single.start # <<>> /\ single.elapsed = <<>>

\* C20: no thread writes output while a timed window is open; a worker
\* writes its diagnostics only before its fetch-add on ready; the result
\* lines of a multi-thread run are written only after every worker is joined
C20_NoOutputInTimedWindow ==
    [][/\ (DriverOutput \/ \E w \in Workers : WorkerOutput(w)) => ~WindowOpen
       /\ \A w \in Workers : WorkerOutput(w) => incs[w] = 0 /\ wpc[w] # "spin"
       /\ (dpc = "report" /\ dpc' = "return" /\ Cur.n > 1) =>
             \A w \in 0 .. (N - 1) : wpc[w] = "joined"
      ]_vars

\* a dual-thread run whose workers printed their bindings, one of them after
\* a perror, has closed every window and written its result lines
C20_Witness ==
    /\ InMulti /\ WorkerPrints(prog) /\ dpc = "return"
    /\ \E w \in 0 .. (N - 1) : bind_ret[w] = <<-1>>
    /\ \A w \in 0 .. (N - 1) : Started(w) /\ Finished(w)
    /\ wall_elapsed # <<>>
    /\ report # {}


-----------------------------------------------------------------------------
(* The rendezvous variables from one run to the next.                      *)

\* the Driver is about to create the first worker of a run
FirstCreate == InMulti /\ dpc = "create" /\ di = 0

\* the thread of worker w exists and has not been joined
Alive(w) == wpc[w] \notin {"unborn", "nothread", "joined"}

\* C23: when the first worker of a run is created, also in the later runs of
\* an --all invocation, ready = 0 and start = 0 and no worker of an earlier
\* run is alive; a run function returns only with every worker joined
C23_FreshRendezvous ==
    /\ [](FirstCreate =>
            ready = 0 /\ start = 0 /\ \A w \in Workers : ~Alive(w))
    /\ [][(dpc = "return" /\ dpc' = "main") =>
            \A w \in Workers : ~Alive(w)]_vars

\* run_test(1) of false_sharing --all begins, after run_test(0) has returned
C23_Witness ==
    /\ FirstCreate
    /\ prog = "false_sharing" /\ mode = "--all"
    /\ Len(plan) = 1 /\ Len(MainPlan(prog, mode)) = 2

-----------------------------------------------------------------------------
(* The counter ready of one run.                                           *)

\* the workers that have returned from bind_to_cpu and executed their
\* fetch-add on ready
Arrived == {w \in Workers : bind_ret[w] # <<>> /\ incs[w] > 0}

\* C30: during a run with N workers ready lies in 0 .. N and is the number
\* of workers that have returned from bind_to_cpu and executed their
\* fetch-add, each of them once; it never decreases, and no step of the
\* Driver changes it
C30_ReadyCounter ==
    /\ [](InMulti =>
            /\ 0 <= ready /\ ready <= Cur.n
            /\ \A w \in Workers : incs[w] <= 1
            /\ ready = Cardinality(Arrived))
    /\ [][(InMulti /\ InMulti') =>
            /\ ready' >= ready
            /\ ready' # ready => dpc' = dpc /\ di' = di]_vars

C30_Witness ==
    /\ prog = "false_sharing"
    /\ InMulti
    /\ start = 0
    /\ ready = NUM_THREADS
    /\ Arrived = Workers

-----------------------------------------------------------------------------
(* main: its mode argument, its arenas and its exit status.                *)

\* main calls a run function in this step
RunCalled == dpc = "main" /\ dpc' \in {"s_bind", "create", "segv"}

\* the process was given an argument that is none of its mode names
UnrecognizedMode == mode # "(none)" /\ mode \notin KnownModes(prog)

\* C21: a process given an unrecognized mode argument calls no run function
\* and exits with status 1 (after its usage line); a process given a
\* recognized mode, whose allocations succeeded, has called every run
\* function of that mode when it exits, and exits with status 0
C21_UsageOrRun ==
    /\ [](dpc = "exit" /\ arena # "null" =>
            /\ UnrecognizedMode => status = <<1>>
            /\ mode \in KnownModes(prog) => status = <<0>> /\ plan = <<>>)
    /\ [][UnrecognizedMode => ~RunCalled]_vars

\* C22: an allocation that returns NULL ends the process at once with a
\* diagnostic and a non-zero exit status: whenever an arena pointer is
\* NULL the process has returned 1 from main, and nothing was stored or
\* loaded through the pointer (no SIGSEGV)
C22_AllocFailureIsReported ==
    arena = "null" => dpc = "exit" /\ status = <<1>>

\* the positions of main at which the arenas are out of every thread's
\* reach: between two run functions and after its return
ArenaAtRest == {"return", "main", "exit"}

\* C29: an arena is freed only when every worker that was handed it has
\* been joined; while it is freed no worker is alive and the Driver is at no
\* position that reads, writes or frees it; it is never freed twice
C29_ArenaLifetime ==
    /\ [](arena # "double free")
    /\ [](arena = "freed" =>
            /\ \A w \in Workers : ~Alive(w)
            /\ dpc \in ArenaAtRest)
    /\ [][(arena' = "freed" /\ arena # "freed") =>
            \A w \in Workers : ~Alive(w) /\ ~Alive(w)']_vars

C29_Witness ==
    /\ prog = "combined_test"
    /\ arena = "freed"
    /\ dpc = "return"
    /\ Len(plan) = 1
    /\ Cur.n = 2
    /\ wpc[0] = "joined" /\ wpc[1] = "joined"

-----------------------------------------------------------------------------
(* false_sharing: where its counters lie and how its workers increment     *)
(* them.  CounterSpec starts where the workers of one run_test have been   *)
(* released and follows their increment loops word by word.                *)

\* the linker's location counter, in bytes, takes the values 0, 8, ..., MaxLoc * 8
MaxLoc == 40

\* ITERATIONS (100000000) scaled down: increments per worker
MaxIterations == 2

CACHE_LINE_SIZE == 64

\* sizeof(uint64_t), which is also its alignment
SIZEOF_UINT64 == 8

\* the least multiple of al that is >= a
AlignUp(a, al) == ((a + al - 1) \div al) * al

\* placement without the aligned(64) attribute: the natural alignment
Place_Natural(loc) == AlignUp(loc, SIZEOF_UINT64)

\* the address of an object declared CACHE_ALIGNED that the linker places
\* with its location counter at loc
Place(loc) == AlignUp(loc, CACHE_LINE_SIZE)

\* sizeof(struct bad_counters): NUM_THREADS adjacent counters
SizeofBad == NUM_THREADS * SIZEOF_UINT64

\* an element of per_thread without its padding
SizeofPerThread_NoPadding == SIZEOF_UINT64

\* sizeof of one element of good.per_thread: the counter, then
\* char padding[CACHE_LINE_SIZE - sizeof(uint64_t)]
SizeofPerThread ==
    AlignUp(SIZEOF_UINT64 + (CACHE_LINE_SIZE - SIZEOF_UINT64), SIZEOF_UINT64)

\* sizeof(struct good_counters)
SizeofGood == NUM_THREADS * SizeofPerThread

\* &bad.counter[i]
BadCounter(i) == bad_base + i * SIZEOF_UINT64

\* &good.per_thread[i].counter
GoodCounter(i) == good_base + i * SizeofPerThread

\* the cache line an address lies in
CacheLine(addr) == addr \div CACHE_LINE_SIZE

\* every worker handed the counter of worker 0
Counter_Shared(w) == IF use_good = 1 THEN GoodCounter(0) ELSE BadCounter(0)

\* the counter worker w increments
Counter(w) == IF use_good = 1 THEN GoodCounter(w) ELSE BadCounter(w)

\* the addresses of the 8-byte words of an object
WordsOf(base, size) ==
    { base + k * SIZEOF_UINT64 : k \in 0 .. ((size \div SIZEOF_UINT64) - 1) }

\* the harness variables of a process of program p whose harness is not
\* followed
HarnessAt(p) ==
    /\ prog = p
    /\ plan = <<>>
    /\ allowed = {}
    /\ clock = ClockAtStart
    /\ dpc = "main"
    /\ di = 0
    /\ ready = 0
    /\ start = 0
    /\ wpc = NoWorkers
    /\ bind_ret = NoSeqs
    /\ incs = [w \in Workers |-> 0]
    /\ w_start = NoSeqs
    /\ result = NoSeqs
    /\ elapsed_time = NoSeqs
    /\ report = {}
    /\ wall_start = <<>>
    /\ wall_elapsed = <<>>
    /\ release_at = <<>>
    /\ single = NoSingle
    /\ mode = "--all"
    /\ status = <<>>
    /\ arena = "none"

\* bad and good placed anywhere the linker may put them, zeroed by run_test's
\* memset calls; every worker at the head of its loop
CounterInit ==
    /\ HarnessAt("false_sharing")
    /\ \E lb, lg \in { k * SIZEOF_UINT64 : k \in 0 .. MaxLoc } :
          /\ bad_base = Place(lb)
          /\ good_base = Place(lg)
          /\ \/ bad_base + SizeofBad <= good_base
             \/ good_base + SizeofGood <= bad_base
    /\ NoKernel
    /\ use_good \in {0, 1}
    /\ mem = [a \in WordsOf(bad_base, SizeofBad)
                      \cup WordsOf(good_base, SizeofGood) |-> 0]
    /\ cnt_pc = [w \in Workers |-> "load"]
    /\ cnt_i = [w \in Workers |-> 0]
    /\ cnt_reg = [w \in Workers |-> 0]

\* counter++ on a volatile: the load
CounterLoad(w) ==
    /\ cnt_pc[w] = "load"
    /\ cnt_reg' = [cnt_reg EXCEPT ![w] = mem[Counter(w)]]
    /\ cnt_pc' = [cnt_pc EXCEPT ![w] = "store"]
    /\ UNCHANGED <<hvars, kvars, bad_base, good_base, use_good, mem, cnt_i>>

\* counter++ on a volatile: the store; i++ and the loop test i < ITERATIONS
CounterStore(w) ==
    /\ cnt_pc[w] = "store"
    /\ mem' = [mem EXCEPT ![Counter(w)] = cnt_reg[w] + 1]
    /\ cnt_i' = [cnt_i EXCEPT ![w] = @ + 1]
    /\ cnt_pc' = [cnt_pc EXCEPT
                    ![w] = IF cnt_i[w] + 1 < MaxIterations THEN "load"
                                                           ELSE "done"]
    /\ UNCHANGED <<hvars, kvars, bad_base, good_base, use_good, cnt_reg>>

CounterNext == \E w \in Workers : CounterLoad(w) \/ CounterStore(w)

CounterSpec == CounterInit /\ [][CounterNext]_vars

\* C13: the padded layout: the stride between consecutive padded counters is
\* at least CACHE_LINE_SIZE, and any two different workers' counters
\* good.per_thread[i].counter lie in different cache lines
C13_PaddedCountersApart ==
    /\ \A i \in 0 .. (NUM_THREADS - 2) :
          GoodCounter(i + 1) - GoodCounter(i) >= CACHE_LINE_SIZE
    /\ \A i, j \in 0 .. (NUM_THREADS - 1) :
          i # j => CacheLine(GoodCounter(i)) # CacheLine(GoodCounter(j))

C13_Witness ==
    /\ use_good = 1 /\ good_base > bad_base
    /\ \A w \in Workers : cnt_pc[w] = "done" /\ mem[GoodCounter(w)] > 0

\* C14: the interleaved layout: all counters bad.counter[i] lie in one cache
\* line
C14_PackedCountersShareLine ==
    \A i, j \in 0 .. (NUM_THREADS - 1) :
        CacheLine(BadCounter(i)) = CacheLine(BadCounter(j))

C14_Witness ==
    /\ use_good = 0 /\ bad_base > good_base
    /\ \A w \in Workers : cnt_pc[w] = "done" /\ mem[BadCounter(w)] > 0

\* every worker of run_test has left its increment loop
AllDone == \A w \in Workers : cnt_pc[w] = "done"

\* C27: no increment is lost: the counter of each worker always holds the
\* number of increments the worker has completed, so that once all workers
\* have left their loops every counter of the selected layout holds exactly
\* ITERATIONS; every counter of the other layout still holds 0
C27_CounterTotals ==
    /\ \A w \in Workers :
          /\ use_good = 1 =>
                mem[GoodCounter(w)] = cnt_i[w] /\ mem[BadCounter(w)] = 0
          /\ use_good = 0 =>
                mem[BadCounter(w)] = cnt_i[w] /\ mem[GoodCounter(w)] = 0
    /\ AllDone =>
          \A w \in Workers :
              /\ cnt_i[w] = MaxIterations
              /\ use_good = 1 => mem[GoodCounter(w)] = MaxIterations
              /\ use_good = 0 => mem[BadCounter(w)] = MaxIterations

C27_Witness ==
    /\ AllDone
    /\ use_good = 0
    /\ \A w \in Workers :
          mem[BadCounter(w)] = MaxIterations /\ mem[GoodCounter(w)] = 0

-----------------------------------------------------------------------------
(* The single-thread workloads on a memory arena: sequential_prefetch,     *)
(* prefetch_hints, random_prefetch, prefetch_distance, memory_intensive of *)
(* latency_hiding and process_* of combined_test.  KernelSpec follows main *)
(* from the initialised arena through its tests, one loop iteration of a   *)
(* workload per step.  The sizes are scaled down and of every uint64_t the *)
(* low WordBits bits are kept: sums, products and stores are exact on      *)
(* them.                                                                   *)

\* cache lines in the arena (ARRAY_SIZE, LARGE_ARRAY_SIZE scaled down)
ArenaLines == 3

\* ACCESS_COUNT, MEMORY_ACCESSES scaled down
MaxAccesses == 5

\* the bits kept of a uint64_t
WordBits == 15

\* the shift of seed >> 16, scaled to the width kept
ShiftBits == 4

LCG_MULTIPLIER == 1103515245

LCG_INCREMENT == 12345

\* uint64_t seed = 12345; of memory_intensive and generate_random_indices
SEED_12345 == 12345

\* uint64_t seed = 54321; of generate_indices
SEED_54321 == 54321

\* PREFETCH_DISTANCE of sequential_prefetch, prefetch_hints, combined_test
PREFETCH_DISTANCE == 16

\* PREFETCH_AHEAD of random_prefetch
PREFETCH_AHEAD == 8

\* the two look-aheads of random_with_multi_prefetch
MULTI_NEAR == 4

MULTI_FAR == 16

\* ITERATIONS of sequential_prefetch
SEQUENTIAL_ITERATIONS == 5

\* ITERATIONS of prefetch_hints
HINTS_ITERATIONS == 3

\* the i += 64 of the flush loops of sequential_prefetch and random_prefetch
FLUSH_STRIDE_64 == 64

\* the i += 8 of flush_cache of prefetch_hints and prefetch_distance
FLUSH_STRIDE_8 == 8

\* the byte memset fills the arenas of latency_hiding and combined_test with
FILL_BYTE == 85

\* the mask 0xFF of array[i] = sum & 0xFF
LOW_BYTE == 255

\* the entries generate_indices makes beyond ACCESS_COUNT
DISTANCE_EXTRA == 256

\* int distances[] of prefetch_distance
Distances == <<0, 1, 2, 4, 8, 16, 32, 64, 128, 256>>

Word == 2 ^ WordBits

\* a value as a uint64_t holds it
U64(x) == x % Word

\* uint64_t elements of a cache line
LineElements == CACHE_LINE_SIZE \div SIZEOF_UINT64

\* elements = ARRAY_SIZE / sizeof(uint64_t)
Elements == ArenaLines * LineElements

\* the cache line of &array[e]; the arenas come from
\* aligned_alloc(CACHE_LINE_SIZE, ...)
LineOf(e) == e \div LineElements

\* the word memset(array, 0x55, ...) leaves in every element
FillWord == U64(FILL_BYTE * 256 + FILL_BYTE)

\* seed = seed * 1103515245 + 12345;
LcgNext(seed) == U64((LCG_MULTIPLIER % Word) * seed + LCG_INCREMENT)

\* (seed >> 16) % elements
LcgIndex(seed) == (seed \div (2 ^ ShiftBits)) % Elements


\* a prefetch that writes to the line it touches
PREFETCH_Clobber(arr, c, e, hint) ==
    [arr |-> IF e \in DOMAIN arr THEN [arr EXCEPT ![e] = 0] ELSE arr,
     cache |-> IF LineOf(e) \in DOMAIN c THEN c ELSE (LineOf(e) :> hint) @@ c]

\* __builtin_prefetch(&array[e], 0, locality): the line of &array[e],
\* inside the arena or not, comes into the cache at the level of the hint
\* if it is not cached yet; no value changes and nothing faults
PREFETCH(arr, c, e, hint) ==
    [arr |-> arr,
     cache |-> IF LineOf(e) \in DOMAIN c THEN c ELSE (LineOf(e) :> hint) @@ c]

\* clflush (&array[e]): the line leaves the cache, written back
CLFLUSH(arr, c, e) ==
    [arr |-> arr,
     cache |-> [l \in DOMAIN c \ {LineOf(e)} |-> c[l]]]

\* a load or store of array[e] leaves its line in L1
Touch(c, e) == (LineOf(e) :> "T0") @@ c

KPrograms == {"sequential_prefetch", "prefetch_hints", "random_prefetch",
              "prefetch_distance", "latency_hiding", "combined_test"}

\* the programs whose tests flush the arena before the timer starts
Cold(p) == p \in {"sequential_prefetch", "prefetch_hints", "random_prefetch",
                  "prefetch_distance"}

\* the step of the flush loop
FlushStride(p) ==
    IF p \in {"sequential_prefetch", "random_prefetch"} THEN FLUSH_STRIDE_64
                                                        ELSE FLUSH_STRIDE_8

\* a test: the workload fn with its argument; fresh when the caller
\* allocates and fills the arena itself (run_single of combined_test)
T(f, d, fr) == [fn |-> f, distance |-> d, fresh |-> fr]

KModes(p) ==
    CASE p = "sequential_prefetch" ->
           {"--no-prefetch", "--prefetch", "--prefetch-nta", "--all", "--bogus"}
      [] p = "random_prefetch" ->
           {"--no-prefetch", "--prefetch", "--multi-prefetch", "--all",
            "--bogus"}
      [] p \in {"prefetch_hints", "prefetch_distance"} -> {"(none)"}
      [] OTHER -> Modes(p)

\* the workloads main runs in mode m, in order; for latency_hiding the
\* invocations of memory_intensive (by run_single_memory, run_single_both
\* and the memory worker of each run_dual_thread)
KPlan(p, m) ==
    CASE p = "sequential_prefetch" ->
           CASE m = "--no-prefetch" ->
                  <<T("sequential_no_prefetch", 0, FALSE)>>
             [] m = "--prefetch" ->
                  <<T("sequential_with_prefetch", 0, FALSE)>>
             [] m = "--prefetch-nta" ->
                  <<T("sequential_with_prefetch_nta", 0, FALSE)>>
             [] m = "--all" ->
                  <<T("sequential_no_prefetch", 0, FALSE),
                    T("sequential_with_prefetch", 0, FALSE),
                    T("sequential_with_prefetch_nta", 0, FALSE)>>
             [] OTHER -> <<>>
      [] p = "random_prefetch" ->
           CASE m = "--no-prefetch" -> <<T("random_no_prefetch", 0, FALSE)>>
             [] m = "--prefetch" -> <<T("random_with_prefetch", 0, FALSE)>>
             [] m = "--multi-prefetch" ->
                  <<T("random_with_multi_prefetch", 0, FALSE)>>
             [] m = "--all" ->
                  <<T("random_no_prefetch", 0, FALSE),
                    T("random_with_prefetch", 0, FALSE),
                    T("random_with_multi_prefetch", 0, FALSE)>>
             [] OTHER -> <<>>
      [] p = "prefetch_hints" ->
           <<T("no_prefetch", 0, FALSE), T("prefetch_t0", 0, FALSE),
             T("prefetch_t1", 0, FALSE), T("prefetch_t2", 0, FALSE),
             T("prefetch_nta", 0, FALSE)>>
      [] p = "prefetch_distance" ->
           [i \in 1 .. Len(Distances) |->
              T("random_access_with_distance", Distances[i], FALSE)]
      [] p = "latency_hiding" ->
           CASE m \in {"--same-core", "--diff-core", "--single"} ->
                  <<T("memory_intensive", 0, FALSE)>>
             [] m = "--all" ->
                  <<T("memory_intensive", 0, FALSE),
                    T("memory_intensive", 0, FALSE),
                    T("memory_intensive", 0, FALSE),
                    T("memory_intensive", 0, FALSE)>>
             [] OTHER -> <<>>
      [] OTHER ->
           <<T("process_no_prefetch", 0, TRUE),
             T("process_with_prefetch", 0, TRUE)>>

Pf(a, h) == [ahead |-> a, hint |-> h]

\* a loop that stops one element early
Loop_OneShort(ix, n, its, pf, wr) ==
    [index |-> ix, count |-> n - 1, iters |-> its, prefetch |-> pf,
     write |-> wr]

\* the loops of a workload: how it finds the element of an iteration
\* (i itself, indices[i], or the generator's next index), its trip counts,
\* the look-aheads it prefetches and what it stores back
Loop(ix, n, its, pf, wr) ==
    [index |-> ix, count |-> n, iters |-> its, prefetch |-> pf, write |-> wr]

Kernel(t) ==
    CASE t.fn = "sequential_no_prefetch" ->
           Loop("i", Elements, SEQUENTIAL_ITERATIONS, <<>>, "none")
      [] t.fn = "sequential_with_prefetch" ->
           Loop("i", Elements, SEQUENTIAL_ITERATIONS,
                <<Pf(PREFETCH_DISTANCE, "T0")>>, "none")
      [] t.fn = "sequential_with_prefetch_nta" ->
           Loop("i", Elements, SEQUENTIAL_ITERATIONS,
                <<Pf(PREFETCH_DISTANCE, "NTA")>>, "none")
      [] t.fn = "no_prefetch" ->
           Loop("i", Elements, HINTS_ITERATIONS, <<>>, "none")
      [] t.fn = "prefetch_t0" ->
           Loop("i", Elements, HINTS_ITERATIONS,
                <<Pf(PREFETCH_DISTANCE, "T0")>>, "none")
      [] t.fn = "prefetch_t1" ->
           Loop("i", Elements, HINTS_ITERATIONS,
                <<Pf(PREFETCH_DISTANCE, "T1")>>, "none")
      [] t.fn = "prefetch_t2" ->
           Loop("i", Elements, HINTS_ITERATIONS,
                <<Pf(PREFETCH_DISTANCE, "T2")>>, "none")
      [] t.fn = "prefetch_nta" ->
           Loop("i", Elements, HINTS_ITERATIONS,
                <<Pf(PREFETCH_DISTANCE, "NTA")>>, "none")
      [] t.fn = "random_no_prefetch" ->
           Loop("indices[i]", MaxAccesses, 1, <<>>, "none")
      [] t.fn = "random_with_prefetch" ->
           Loop("indices[i]", MaxAccesses, 1,
                <<Pf(PREFETCH_AHEAD, "T0")>>, "none")
      [] t.fn = "random_with_multi_prefetch" ->
           Loop("indices[i]", MaxAccesses, 1,
                <<Pf(MULTI_NEAR, "T0"), Pf(MULTI_FAR, "T1")>>, "none")
      [] t.fn = "random_access_with_distance" ->
           Loop("indices[i]", MaxAccesses, 1,
                IF t.distance > 0 THEN <<Pf(t.distance, "T0")>> ELSE <<>>,
                "none")
      [] t.fn = "memory_intensive" ->
           Loop("seed", MaxAccesses, 1, <<>>, "sum")
      [] t.fn = "process_with_prefetch" ->
           Loop("i", Elements, 1, <<Pf(PREFETCH_DISTANCE, "T0")>>, "sum & 0xFF")
      [] OTHER ->
           Loop("i", Elements, 1, <<>>, "sum & 0xFF")

\* the arena as main (or run_single) initialises it: array[i] = i in the
\* prefetch programs, memset(..., 0x55, ...) in latency_hiding and
\* combined_test
InitialArena(p) ==
    [e \in 0 .. (Elements - 1) |-> IF Cold(p) THEN U64(e) ELSE FillWord]

\* the number of entries generate_random_indices or generate_indices fills
TableLength(p) ==
    CASE p = "random_prefetch" -> MaxAccesses + PREFETCH_AHEAD
      [] p = "prefetch_distance" -> MaxAccesses + DISTANCE_EXTRA
      [] OTHER -> 0

\* the seed the generator of program p starts from
TableSeed(p) ==
    CASE p = "random_prefetch" -> U64(SEED_12345)
      [] p = "prefetch_distance" -> U64(SEED_54321)
      [] OTHER -> 0

\* a seed that lives on from one invocation to the next
SeedAtEntry_Static(fn, old) == old

\* the value of the local seed when the workload fn starts (old: what the
\* variable held before)
SeedAtEntry(fn, old) == IF fn = "memory_intensive" THEN U64(SEED_12345) ELSE 0

\* what a read of indices[j] past the entries the generator filled can
\* return: the word that happens to lie there
Garbage == {0, Elements + LineElements}

\* main has allocated and initialised the arena and is about to generate
\* the index table, if the program has one, and then to run its first test;
\* of the lines it wrote any may still be cached
KernelInit ==
    /\ \E p \in KPrograms :
          /\ HarnessAt(p)
          /\ \E m \in KModes(p) : kplan = KPlan(p, m)
          /\ karr = InitialArena(p)
          /\ kseed = TableSeed(p)
          /\ kpc = IF TableLength(p) > 0 THEN "generate" ELSE "main"
    /\ indices = <<>>
    /\ NoCounters
    /\ \E S \in SUBSET (0 .. (ArenaLines - 1)) : cache = [l \in S |-> "T0"]
    /\ ki = 0
    /\ kiter = 0
    /\ ksum = 0
    /\ kflushed = 0
    /\ kfenced = FALSE
    /\ kidx = <<>>
    /\ kin = <<>>
    /\ runs = <<>>

KCur == Head(kplan)

\* one iteration of the generator's loop:
\* seed = seed * 1103515245 + 12345; indices[i] = (seed >> 16) % elements;
KernelGenerate ==
    /\ kpc = "generate"
    /\ kseed' = LcgNext(kseed)
    /\ indices' = Append(indices, LcgIndex(LcgNext(kseed)))
    /\ kpc' = IF Len(indices) + 1 < TableLength(prog) THEN "generate"
                                                      ELSE "main"
    /\ UNCHANGED <<hvars, cvars, kplan, karr, cache, ki, kiter, ksum,
                   kflushed, kfenced, kidx, kin, runs>>

\* main calls run_test / test_distance / a run function: the header is
\* printed; run_single of combined_test allocates and fills its own arena
KernelCall ==
    /\ kpc = "main"
    /\ kplan # <<>>
    /\ karr' = IF KCur.fresh THEN InitialArena(prog) ELSE karr
    /\ cache' = IF KCur.fresh
                   THEN [l \in 0 .. (ArenaLines - 1) |-> "T0"] @@ cache
                   ELSE cache
    /\ ki' = 0
    /\ kpc' = IF Cold(prog) THEN "flush" ELSE "t0"
    /\ UNCHANGED <<hvars, cvars, kplan, indices, kiter, ksum, kseed, kflushed,
                   kfenced, kidx, kin, runs>>

\* one iteration of for (i = 0; i < elements; i += stride) CLFLUSH(&array[i]);
KernelFlush ==
    /\ kpc = "flush"
    /\ cache' = CLFLUSH(karr, cache, ki).cache
    /\ karr' = CLFLUSH(karr, cache, ki).arr
    /\ kflushed' = kflushed + 1
    /\ ki' = ki + FlushStride(prog)
    /\ kpc' = IF ki + FlushStride(prog) < Elements THEN "flush" ELSE "fence"
    /\ UNCHANGED <<hvars, cvars, kplan, indices, kiter, ksum, kseed, kfenced,
                   kidx, kin, runs>>

\* a test that goes from its flush loop to the timer without the fence
KernelFence_Skipped ==
    /\ kpc = "fence"
    /\ kpc' = "t0"
    /\ UNCHANGED <<hvars, cvars, kplan, karr, indices, cache, ki, kiter, ksum,
                   kseed, kflushed, kfenced, kidx, kin, runs>>

\* BARRIER();
KernelFence ==
    /\ kpc = "fence"
    /\ kfenced' = TRUE
    /\ kpc' = "t0"
    /\ UNCHANGED <<hvars, cvars, kplan, karr, indices, cache, ki, kiter, ksum,
                   kseed, kflushed, kidx, kin, runs>>

\* a workload whose sum is not set to 0 at its entry
KernelStartTimer_KeepSum ==
    /\ kpc = "t0"
    /\ kseed' = SeedAtEntry(KCur.fn, kseed)
    /\ ki' = 0
    /\ kiter' = 0
    /\ kidx' = <<>>
    /\ kin' = karr
    /\ kpc' = "work"
    /\ UNCHANGED <<hvars, cvars, kplan, karr, indices, cache, ksum, kflushed,
                   kfenced, runs>>

\* double start = get_time_sec(); and the entry of the workload: sum = 0,
\* its seed, i = 0
KernelStartTimer ==
    /\ kpc = "t0"
    /\ ksum' = 0
    /\ kseed' = SeedAtEntry(KCur.fn, kseed)
    /\ ki' = 0
    /\ kiter' = 0
    /\ kidx' = <<>>
    /\ kin' = karr
    /\ kpc' = "work"
    /\ UNCHANGED <<hvars, cvars, kplan, karr, indices, cache, kflushed,
                   kfenced, runs>>

\* the prefetches of one iteration, in order
RECURSIVE Prefetches(_, _)
Prefetches(m, ps) ==
    IF ps = <<>> THEN m
    ELSE Prefetches(PREFETCH(m.arr, m.cache, Head(ps).e, Head(ps).hint),
                    Tail(ps))

\* one iteration of the workload's inner loop: its prefetches, sum +=
\* array[idx], its store if it has one, i++ and the loop tests
KernelIterate ==
    /\ kpc = "work"
    /\ LET k == Kernel(KCur)
           seed1 == IF k.index = "seed" THEN LcgNext(kseed) ELSE kseed
           idx == CASE k.index = "i" -> ki
                    [] k.index = "indices[i]" -> indices[ki + 1]
                    [] OTHER -> LcgIndex(seed1)
       IN \E g \in Garbage :
            LET target(a) == IF k.index = "i" THEN ki + a
                             ELSE IF ki + a + 1 <= Len(indices)
                                    THEN indices[ki + a + 1] ELSE g
                m1 == Prefetches([arr |-> karr, cache |-> cache],
                                 [j \in 1 .. Len(k.prefetch) |->
                                    [e |-> target(k.prefetch[j].ahead),
                                     hint |-> k.prefetch[j].hint]])
                sum1 == U64(ksum + m1.arr[idx])
                last == ki + 1 = k.count
            IN /\ kseed' = seed1
               /\ ksum' = sum1
               /\ kidx' = Append(kidx, idx)
               /\ karr' = CASE k.write = "sum" ->
                                [m1.arr EXCEPT ![idx] = sum1]
                             [] k.write = "sum & 0xFF" ->
                                [m1.arr EXCEPT ![idx] = sum1 % (LOW_BYTE + 1)]
                             [] OTHER -> m1.arr
               /\ cache' = Touch(m1.cache, idx)
               /\ ki' = IF last THEN 0 ELSE ki + 1
               /\ kiter' = IF last THEN kiter + 1 ELSE kiter
               /\ kpc' = IF last /\ kiter + 1 = k.iters THEN "t1" ELSE "work"
    /\ UNCHANGED <<hvars, cvars, kplan, indices, kflushed, kfenced, kin, runs>>

\* the workload has returned its sum; double elapsed = get_time_sec() - start;
KernelStopTimer ==
    /\ kpc = "t1"
    /\ runs' = Append(runs, [fn |-> KCur.fn, distance |-> KCur.distance,
                              in |-> kin, idx |-> kidx, sum |-> ksum,
                              out |-> karr])
    /\ kpc' = "report"
    /\ UNCHANGED <<hvars, cvars, kplan, karr, indices, cache, ki, kiter, ksum,
                   kseed, kflushed, kfenced, kidx, kin>>

\* the result line is printed and the test returns to main
KernelReport ==
    /\ kpc = "report"
    /\ kplan' = Tail(kplan)
    /\ kpc' = "main"
    /\ ki' = 0
    /\ kiter' = 0
    /\ kflushed' = 0
    /\ kfenced' = FALSE
    /\ kidx' = <<>>
    /\ kin' = <<>>
    /\ UNCHANGED <<hvars, cvars, karr, indices, cache, ksum, kseed, runs>>

\* main has run its tests and returns
KernelExit ==
    /\ kpc = "main"
    /\ kplan = <<>>
    /\ kpc' = "exit"
    /\ UNCHANGED <<hvars, cvars, kplan, karr, indices, cache, ki, kiter, ksum,
                   kseed, kflushed, kfenced, kidx, kin, runs>>

KernelNext ==
    \/ KernelGenerate
    \/ KernelCall
    \/ KernelFlush
    \/ KernelFence
    \/ KernelStartTimer
    \/ KernelIterate
    \/ KernelStopTimer
    \/ KernelReport
    \/ KernelExit

KernelSpec == KernelInit /\ [][KernelNext]_vars

-----------------------------------------------------------------------------
(* Checksums, index sequences and the cold start *)

\* the non-prefetching workload a prefetching one is compared with
Counterpart(f) ==
    CASE f \in {"sequential_with_prefetch", "sequential_with_prefetch_nta"} ->
           "sequential_no_prefetch"
      [] f \in {"random_with_prefetch", "random_with_multi_prefetch"} ->
           "random_no_prefetch"
      [] f = "process_with_prefetch" -> "process_no_prefetch"
      [] f \in {"prefetch_t0", "prefetch_t1", "prefetch_t2", "prefetch_nta"} ->
           "no_prefetch"
      [] OTHER -> f

Returned == 1 .. Len(runs)

\* C15: prefetches and flushes change no value: a flush step and an
\* iteration of a workload that has no store leave the arena as it was, and
\* a prefetching workload returns the checksum, and leaves the arena, that
\* its non-prefetching counterpart does from the same initial arena
C15_PrefetchKeepsValues ==
    /\ [](\A a, b \in Returned :
             (Counterpart(runs[a].fn) = runs[b].fn /\ runs[a].in = runs[b].in)
                 => (runs[a].sum = runs[b].sum /\ runs[a].out = runs[b].out))
    /\ [][(kpc = "flush" \/ (kpc = "work" /\ Kernel(KCur).write = "none"))
             => karr' = karr]_vars

C15_Witness ==
    /\ \E a, b \in Returned :
          /\ runs[a].fn # runs[b].fn
          /\ Counterpart(runs[a].fn) = runs[b].fn
          /\ runs[a].in = runs[b].in
          /\ runs[a].sum = runs[b].sum /\ runs[a].sum > 0
    /\ \E l \in DOMAIN cache : l >= ArenaLines

\* the CLFLUSH instructions of one cold-start test
FlushCount(p) == (Elements + FlushStride(p) - 1) \div FlushStride(p)

\* the timer of the current test has been started
TimerStarted == kpc \in {"work", "t1", "report"}

\* C16: in a cold-start test every CLFLUSH comes first, then BARRIER(),
\* then the start timestamp; nothing is flushed after the fence or after
\* the timer has started
C16_FlushFenceTimer ==
    /\ [](Cold(prog) /\ TimerStarted =>
             kfenced /\ kflushed = FlushCount(prog))
    /\ [][/\ (kflushed' > kflushed) => (kpc = "flush" /\ ~kfenced)
          /\ (\E l \in DOMAIN cache : l \notin DOMAIN cache') =>
                 (kpc = "flush" /\ ~kfenced)
          /\ (kfenced' /\ ~kfenced) =>
                 (/\ kpc = "fence" /\ kpc' = "t0"
                  /\ kflushed = FlushCount(prog))]_vars

C16_Witness ==
    /\ Cold(prog) /\ kpc = "work" /\ ki > 0
    /\ kfenced /\ kflushed = FlushCount(prog) /\ kflushed > 1

\* C17: the workloads of a program with random accesses all touch the same
\* sequence of indices: memory_intensive starts each invocation from the
\* seed 12345, every seed advances by seed * 1103515245 + 12345 only, and
\* every index is (seed >> 16) % elements of the seed just made; the table
\* workloads read the entries indices[0 .. ACCESS_COUNT - 1]
C17_SameIndexSequence ==
    /\ [](\A a, b \in Returned : runs[a].idx = runs[b].idx)
    /\ [](\A a \in Returned :
             indices # <<>> => runs[a].idx = SubSeq(indices, 1, MaxAccesses))
    /\ [][/\ (kpc = "t0" /\ KCur.fn = "memory_intensive") =>
                 (kseed' = U64(SEED_12345))
          /\ (kpc = "work" /\ Kernel(KCur).index = "seed") =>
                 (/\ kseed' = LcgNext(kseed)
                  /\ kidx' = Append(kidx, LcgIndex(kseed')))
          /\ (kpc = "generate") =>
                 (/\ kseed' = LcgNext(kseed)
                  /\ indices' = Append(indices, LcgIndex(kseed')))]_vars

C17_Witness ==
    /\ prog = "latency_hiding" /\ Len(runs) >= 2
    /\ runs[1].idx = runs[2].idx
    /\ Len(runs[1].idx) = MaxAccesses
    /\ \E j, k \in 1 .. MaxAccesses : runs[1].idx[j] # runs[1].idx[k]

\* memory_intensive as a function of the array it finds: n more accesses
RECURSIVE memory_intensive(_, _, _, _)
memory_intensive(arr, seed, sum, n) ==
    IF n = 0 THEN [sum |-> sum, arr |-> arr]
    ELSE LET idx == LcgIndex(LcgNext(seed))
             s == U64(sum + arr[idx])
         IN memory_intensive([arr EXCEPT ![idx] = s], LcgNext(seed), s, n - 1)

\* C18 as claimed: every invocation of memory_intensive of one execution
\* returns the same checksum
C18_SameChecksum ==
    \A a, b \in Returned :
        (runs[a].fn = "memory_intensive" /\ runs[b].fn = "memory_intensive")
            => runs[a].sum = runs[b].sum

\* C18: the checksum memory_intensive returns is the function of the array
\* contents at its entry that its loop computes from the seed 12345; the
\* first invocation finds the array as memset left it, each later one the
\* array as its predecessor left it
C18_ChecksumOfArenaAtEntry ==
    \A a \in Returned :
        runs[a].fn = "memory_intensive" =>
            /\ runs[a].sum = memory_intensive(runs[a].in, U64(SEED_12345), 0,
                                              MaxAccesses).sum
            /\ runs[a].out = memory_intensive(runs[a].in, U64(SEED_12345), 0,
                                              MaxAccesses).arr
            /\ runs[a].in = IF a = 1 THEN InitialArena(prog)
                                     ELSE runs[a - 1].out

C18_Witness ==
    /\ prog = "latency_hiding" /\ Len(runs) = 4
    /\ runs[1].sum # runs[2].sum
    /\ runs[1].in # runs[2].in

\* the sum of 0 .. elements - 1
ClosedFormSum == U64((Elements * (Elements - 1)) \div 2)

\* the arena holds array[i] == i
IdentityArena(arr) == \A e \in DOMAIN arr : arr[e] = U64(e)

\* C19 as claimed: on array[i] == i the checksum of sequential_no_prefetch
\* and of no_prefetch is elements * (elements - 1) / 2
C19_SumOfOnePass ==
    \A a \in Returned :
        (runs[a].fn \in {"sequential_no_prefetch", "no_prefetch"}
           /\ IdentityArena(runs[a].in))
            => runs[a].sum = ClosedFormSum

\* C19: on array[i] == i the checksum of sequential_no_prefetch and of
\* no_prefetch is ITERATIONS times elements * (elements - 1) / 2, modulo the
\* width of uint64_t: the workload sums the array ITERATIONS times (5 in
\* sequential_prefetch, 3 in prefetch_hints)
C19_SumOfAllPasses ==
    \A a \in Returned :
        (runs[a].fn \in {"sequential_no_prefetch", "no_prefetch"}
           /\ IdentityArena(runs[a].in))
            => runs[a].sum =
                 U64((IF runs[a].fn = "no_prefetch" THEN HINTS_ITERATIONS
                      ELSE SEQUENTIAL_ITERATIONS)
                     * ((Elements * (Elements - 1)) \div 2))

C19_Witness ==
    \E a \in Returned :
        /\ runs[a].fn = "sequential_no_prefetch"
        /\ IdentityArena(runs[a].in)
        /\ Len(runs[a].idx) = SEQUENTIAL_ITERATIONS * Elements
        /\ runs[a].sum # ClosedFormSum

-----------------------------------------------------------------------------
(* The subscripts used on the index table.                                 *)

\* the number of entries main allocates for indices
TableAllocated(p) ==
    CASE p = "random_prefetch" -> MaxAccesses + PREFETCH_AHEAD + 1
      [] p = "prefetch_distance" -> MaxAccesses + DISTANCE_EXTRA
      [] OTHER -> 0

\* the subscripts iteration i of a workload with loops k uses on indices[]:
\* i for the element it sums, i + ahead for each of its prefetches
IndexSubscripts(k, i) ==
    {i} \cup { i + k.prefetch[j].ahead : j \in 1 .. Len(k.prefetch) }

\* C24: every subscript a workload uses on indices[] is below the number of
\* entries the generator has written, and below the number allocated
C24_IndexReadsInitialised ==
    (kpc = "work" /\ Kernel(KCur).index = "indices[i]") =>
        \A j \in IndexSubscripts(Kernel(KCur), ki) :
            j < Len(indices) /\ j < TableAllocated(prog)

-----------------------------------------------------------------------------
(* The addresses handed to the prefetch instructions.                      *)

\* the subscripts of array[] whose addresses iteration i of a workload with
\* loops k, running over the arena by its loop index, hands to a prefetch
PrefetchSubscripts(k, i) ==
    { i + k.prefetch[j].ahead : j \in 1 .. Len(k.prefetch) }

\* C28: every subscript a workload that runs over the arena by its loop
\* index hands to a prefetch is below the number of elements of the arena
C28_PrefetchInsideArena ==
    (kpc = "work" /\ Kernel(KCur).index = "i" /\ ki < Kernel(KCur).count) =>
        \A j \in PrefetchSubscripts(Kernel(KCur), ki) : j < Elements

-----------------------------------------------------------------------------
(* The cache when the timer of a cold-start test starts.                   *)

\* the cache lines of the arena
ArenaLineSet == 0 .. (ArenaLines - 1)

\* C25: when a cold-start test is about to read the clock that starts its
\* timer, no line of the arena is cached: its flush loop has flushed every
\* one of them, its stride skipping none
C25_ColdStart ==
    (Cold(prog) /\ kpc = "t0") =>
        \A l \in ArenaLineSet : l \notin DOMAIN cache

-----------------------------------------------------------------------------
(* What the threads of one multi-thread run store into.                    *)

\* half of run_dual_thread of shared_cache
half == Elements \div 2

\* .start_idx and .end_idx of args[w] of shared_cache
StartIdx_Zero(w) == 0

StartIdx(w) == IF w = 0 THEN 0 ELSE half

EndIdx(w) == IF w = 0 THEN half ELSE Elements

\* the array args[w].array of a run with two arenas points to
ArrayOf(w) == IF w = 0 THEN "array1" ELSE "array2"

\* the locations <<object, subscript>> worker w of run function fn stores
\* into between its two clock readings, and its own output fields after them
WriteSet(p, fn, w) ==
    {<<"args", w>>} \cup
    CASE p = "latency_hiding" ->
           IF w = 1 THEN {<<"large_array", e>> : e \in 0 .. (Elements - 1)}
           ELSE {}
      [] p = "shared_cache" ->
           {<<"shared_array", e>> : e \in StartIdx(w) .. (EndIdx(w) - 1)}
      [] p = "dcache_contention" ->
           {<<ArrayOf(w), e>> :
               e \in {i \in 0 .. (Elements - 1) : i % LineElements = 0}}
      [] p = "combined_test" ->
           {<<ArrayOf(w), e>> : e \in 0 .. (Elements - 1)}
      [] p = "false_sharing" ->
           {<<IF fn = "run_test(1)" THEN "good" ELSE "bad", w>>}
      [] OTHER -> {}

\* the locations worker w has stored into so far in the current run
Written(w) == IF Finished(w) THEN WriteSet(prog, Cur.fn, w) ELSE {}

\* the locations the Driver stores into at position pc of run function fn:
\* the memsets and the args initialisers before the first pthread_create,
\* the store start = 1, and nothing from there to the last join
DriverWriteSet(p, fn, pc) ==
    CASE pc = "create" ->
           {<<"args", w>> : w \in Workers} \cup
           (CASE p = "combined_test" ->
                   {<<a, e>> : a \in {"array1", "array2"},
                               e \in 0 .. (Elements - 1)}
              [] p = "false_sharing" ->
                   {<<l, w>> : l \in {"bad", "good"}, w \in Workers}
              [] OTHER -> {})
      [] pc = "release" -> {<<"start", 0>>}
      [] OTHER -> {}

\* C26: no location is stored into by two workers of the same run, and from
\* the release to the last join the Driver stores into none of the locations
\* a worker of the run stores into
C26_DisjointWrites ==
    InMulti =>
        /\ \A v, w \in 0 .. (Cur.n - 1) :
             v # w => Written(v) \cap Written(w) = {}
        /\ (release_at # <<>> /\ dpc = "join") =>
             \A w \in 0 .. (Cur.n - 1) :
                 DriverWriteSet(prog, Cur.fn, dpc)
                     \cap WriteSet(prog, Cur.fn, w) = {}

C26_Witness ==
    /\ InMulti
    /\ prog = "shared_cache"
    /\ dpc = "join"
    /\ Finished(0) /\ Finished(1)
    /\ Written(0) # {} /\ Written(1) # {}
    /\ <<"shared_array", half>> \in Written(1)

====
